---------------------------- MODULE Spec2Model ----------------------------
(***************************************************************************)
(* Quiz-authoring pages of deepakdashcode108/quiz-app.                     *)
(*                                                                         *)
(* The repository holds four near-duplicate page modules.  One behaviour   *)
(* of the model is one browser tab running one of them:                    *)
(*   "dialog0"  src/unnamed/part_000         CreateQuizPage, form in a     *)
(*                                           modal dialog, delete button   *)
(*   "dialog1"  src/unnamed/part_001         the same page, image handler  *)
(*   "inline"   src/src/app/page.tsx 1-332   CreateQuizPage, inline form   *)
(*   "remote"   src/src/app/page.tsx 334-880 Modal, typed questions,       *)
(*                                           domain/subject, remote create *)
(*                                                                         *)
(* React state is modelled by one variable per useState cell.  An event    *)
(* handler, the render it causes and the effects of that render are one    *)
(* action (React flushes them before the next discrete event).  The two    *)
(* commits of the mount (effects of the first render, then the render the  *)
(* load effect asks for) are two actions.  An await splits a handler into  *)
(* the part before it and the continuation.                                *)
(*                                                                         *)
(* JavaScript positions are 0-based; position i of a JS array is element   *)
(* i + 1 of the TLA+ sequence that models it.                              *)
(***************************************************************************)
EXTENDS Integers, Sequences, FiniteSets, TLC

(***************************************************************************)
(* Bounds of the model.                                                    *)
(***************************************************************************)
\* Save is accepted only while the store holds fewer questions than this.
MaxQuestions == 2
\* Add Option is offered only while the form holds fewer options than this.
MaxOptions == 3
\* Date.now() returns values in 0 .. MaxClock.
MaxClock == 1
\* At most this many calls of a kind (AddQuestion, GetAllSubjects) are awaited
\* at once, except where concurrent calls are explored.
MaxPending == 1
\* The remote variant's store holds up to MaxStored questions where every
\* question type is explored.
MaxStored == 1
\* Where concurrent calls are explored, at most this many calls of a kind
\* are awaited at once.
MaxRacing == 2
\* A viewer is handed a paragraph of at most this many letters and markers.
MaxNodes == 3
\* The formula button is offered while the field holds fewer markers than
\* this.
MaxFormulas == 1

(***************************************************************************)
(* Program constants.                                                      *)
(***************************************************************************)
\* part_000:165 / part_001:171  options.length < 5
OptionLimit == 5
\* part_000:171 / part_001:174  options.length > 2
OptionFloor == 2

Variants == {"dialog0", "dialog1", "inline", "remote"}
DialogVariants == {"dialog0", "dialog1"}

(***************************************************************************)
(* Rich-text strings.  A string is a sequence of tokens; a token is a      *)
(* space, a tag or a letter.                                               *)
(***************************************************************************)
Space == " "
EmptyString == << >>
BlankString == << Space >>
\* The markup Quill reports for an editor without content: "<p><br></p>".
EmptyParagraph == << "<p>", "<br>", "</p>" >>
TypedParagraph == << "<p>", "x", "</p>" >>
PaddedParagraph == << Space, "<p>", "x", "</p>", Space >>

RECURSIVE TrimStart(_)
TrimStart(s) ==
    IF s = << >> THEN s
    ELSE IF Head(s) = Space THEN TrimStart(Tail(s)) ELSE s

RECURSIVE TrimEnd(_)
TrimEnd(s) ==
    IF s = << >> THEN s
    ELSE IF s[Len(s)] = Space THEN TrimEnd(SubSeq(s, 1, Len(s) - 1)) ELSE s

\* String.prototype.trim
Trim(s) == TrimEnd(TrimStart(s))

\* !s.trim() : the empty string is the only falsy string
TrimsToNothing(s) == Trim(s) = EmptyString

(***************************************************************************)
(* Number <-> string.                                                      *)
(***************************************************************************)
Digits == << "0", "1", "2", "3", "4", "5", "6", "7", "8", "9" >>

RECURSIVE NumberToString(_)
\* Number.prototype.toString of a non-negative integer
NumberToString(n) ==
    IF n < 10 THEN << Digits[n + 1] >>
    ELSE NumberToString(n \div 10) \o << Digits[(n % 10) + 1] >>

DigitValue(c) == CHOOSE d \in 0 .. 9 : Digits[d + 1] = c

RECURSIVE ParseIntFrom(_, _)
ParseIntFrom(s, acc) ==
    IF s = << >> THEN acc
    ELSE ParseIntFrom(Tail(s), 10 * acc + DigitValue(Head(s)))

\* parseInt(s, 10) and Number(s) of a string of decimal digits
ParseInt(s) == ParseIntFrom(s, 0)

(***************************************************************************)
(* JSON.  A JSON text is modelled by its syntax tree: a tagged tuple per   *)
(* value, an object being the sequence of its members in property order.   *)
(***************************************************************************)
JNum(n) == << "num", n >>
JStr(s) == << "str", s >>
JBool(b) == << "bool", b >>
JArr(items) == << "arr", items >>
JObj(members) == << "obj", members >>

\* A serializer that writes the text of an option only.
StringifyOptionTextOnly(o) == JObj(<< << "text", JStr(o.text) >> >>)

\* An option object is { text } in the form state and in the dialog
\* variants' store, { text, isCorrect } in the other variants' store.
StringifyOption(o) ==
    IF "isCorrect" \in DOMAIN o
    THEN JObj(<< << "text", JStr(o.text) >>, << "isCorrect", JBool(o.isCorrect) >> >>)
    ELSE JObj(<< << "text", JStr(o.text) >> >>)

StringifyOptions(os) == JArr([i \in 1 .. Len(os) |-> StringifyOption(os[i])])

\* JSON.stringify of one Question, members in the order the object literal
\* lists them.
StringifyQuestion(q) ==
    IF "correctAnswer" \in DOMAIN q
    THEN JObj(<< << "id", JNum(q.id) >>,
                 << "question", JStr(q.question) >>,
                 << "options", StringifyOptions(q.options) >>,
                 << "correctAnswer", JNum(q.correctAnswer) >> >>)
    ELSE IF "explanation" \in DOMAIN q
    THEN JObj(<< << "id", JStr(q.id) >>,
                 << "text", JStr(q.text) >>,
                 << "options", StringifyOptions(q.options) >>,
                 << "explanation", JStr(q.explanation) >>,
                 << "subject_id", JStr(q.subject_id) >>,
                 << "min_value", JNum(q.min_value) >>,
                 << "max_value", JNum(q.max_value) >>,
                 << "type", JStr(q.type) >> >>)
    ELSE JObj(<< << "id", JStr(q.id) >>,
                 << "text", JStr(q.text) >>,
                 << "options", StringifyOptions(q.options) >> >>)

\* JSON.stringify(questions)
Stringify(qs) == JArr([i \in 1 .. Len(qs) |-> StringifyQuestion(qs[i])])

MemberKeys(members) == { members[i][1] : i \in 1 .. Len(members) }
MemberValue(members, k) ==
    members[CHOOSE i \in 1 .. Len(members) : members[i][1] = k][2]

RECURSIVE ParseValue(_)
\* JSON.parse of a syntax tree: the JavaScript value it denotes
ParseValue(j) ==
    CASE j[1] = "arr" -> [i \in 1 .. Len(j[2]) |-> ParseValue(j[2][i])]
      [] j[1] = "obj" -> [k \in MemberKeys(j[2]) |-> ParseValue(MemberValue(j[2], k))]
      [] OTHER -> j[2]

(***************************************************************************)
(* localStorage slot "quizQuestions".                                      *)
(***************************************************************************)
NoItem == [kind |-> "none"]
Garbage == [kind |-> "garbage"]
JsonText(doc) == [kind |-> "json", doc |-> doc]

\* A persist effect that writes an incremental diff, the newest question only.
PersistNewest(qs) ==
    JsonText(Stringify(IF qs = << >> THEN qs ELSE << qs[Len(qs)] >>))

\* localStorage.setItem("quizQuestions", JSON.stringify(questions))
PersistEffect(qs) == JsonText(Stringify(qs))


(***************************************************************************)
(* Backend data (GET /domains, GET /domains/{id}/subjects).                *)
(***************************************************************************)
ServerDomains == << [id |-> 1, name |-> "d1"] >>
\* A backend with a second domain.
ServerTwoDomains == << [id |-> 1, name |-> "d1"], [id |-> 2, name |-> "d2"] >>
ServerSubjects(domainid) ==
    << [id |-> 10 * ParseInt(domainid) + 1, name |-> "s", domainid |-> ParseInt(domainid)] >>

(***************************************************************************)
(* Values the user can type or pick.                                       *)
(***************************************************************************)
QuestionTextInputs == { TypedParagraph }
OptionTextInputs == { TypedParagraph }
ExplanationInputs == { TypedParagraph }
QuestionTypes == { "MCQ", "MSQ", "NAT" }
\* Texts of a user who also types blanks, pads a text with blanks and leaves
\* the editor's empty paragraph behind.
SentinelQuestionTexts ==
    { BlankString, EmptyParagraph, TypedParagraph, PaddedParagraph }
SentinelOptionTexts == { EmptyParagraph, TypedParagraph }

(***************************************************************************)
(* JavaScript values that may be absent.                                   *)
(***************************************************************************)
Undefined == [defined |-> FALSE]
Defined(v) == [defined |-> TRUE, value |-> v]
\* useState<string | null>(null)
Null == [null |-> TRUE]
NotNull(v) == [null |-> FALSE, value |-> v]

(***************************************************************************)
(* LaTeX expressions and KaTeX.  An expression is a string like any other: *)
(* a sequence of tokens.                                                   *)
(***************************************************************************)
GoodLatex == << "x^2" >>
PaddedLatex == << Space, "x^2" >>
\* Two expressions the KaTeX parser rejects.
BadLatex == << "\\frac{" >>
OtherBadLatex == << "\\sqrt[" >>
\* Braces nested deeper than the JavaScript stack allows: the recursive
\* parser ends in a RangeError, which is no ParseError.
DeepLatex == << "{{{...}}}" >>

\* How KaTeX's parser ends on an expression: "html", "ParseError" or the
\* name of another exception.
KatexOutcome(latex) ==
    IF \E i \in 1 .. Len(latex) : latex[i] = DeepLatex[1] THEN "RangeError"
    ELSE IF \E i \in 1 .. Len(latex) : latex[i] \in { BadLatex[1], OtherBadLatex[1] }
    THEN "ParseError"
    ELSE "html"

\* katex.renderToString(latex, { throwOnError }) and katex.render(latex, el,
\* { throwOnError }).  With throwOnError: false a ParseError is not thrown:
\* KaTeX returns the source text of the expression in its error colour.
\* Every other exception is thrown whatever the option says.
KatexRender(latex, throwOnError) ==
    LET outcome == KatexOutcome(latex) IN
    IF outcome = "html"
    THEN [threw |-> FALSE, html |-> [kind |-> "katex", of |-> latex]]
    ELSE IF outcome = "ParseError" /\ ~throwOnError
    THEN [threw |-> FALSE, html |-> [kind |-> "katex-error", of |-> latex]]
    ELSE [threw |-> TRUE, message |-> [name |-> outcome, of |-> latex]]

\* The token of a formula marker, <span class="ql-formula" data-value="...">,
\* per expression it carries.
FormulaSpans ==
    { << EmptyString, "<span class='ql-formula' data-value=''>" >>,
      << GoodLatex, "<span class='ql-formula' data-value='x^2'>" >>,
      << PaddedLatex, "<span class='ql-formula' data-value=' x^2'>" >>,
      << BadLatex, "<span class='ql-formula' data-value='\\frac{'>" >>,
      << OtherBadLatex, "<span class='ql-formula' data-value='\\sqrt['>" >>,
      << DeepLatex, "<span class='ql-formula' data-value='{{{...}}}'>" >> }
\* A marker without the attribute.
BareFormulaSpan == "<span class='ql-formula'>"

\* The marker Quill's formula blot writes for an expression.
FormulaSpan(latex) == (CHOOSE p \in FormulaSpans : p[1] = latex)[2]

\* querySelectorAll("span.ql-formula") / querySelectorAll(".ql-formula")
IsFormula(token) ==
    token = BareFormulaSpan \/ \E p \in FormulaSpans : p[2] = token

\* node.getAttribute("data-value")
GetAttribute(token) ==
    IF token = BareFormulaSpan THEN Null
    ELSE NotNull((CHOOSE p \in FormulaSpans : p[2] = token)[1])

\* The formula markers of a rich-text string, in document order.
FormulasIn(html) == SelectSeq(html, IsFormula)

\* What Quill holds for a string given as value: the tokens inside the
\* paragraph.
EditorContents(html) ==
    SelectSeq(html, LAMBDA token : token \notin { "<p>", "</p>", "<br>", Space })

\* editor.insertEmbed(index, "formula", latex, "user"), as the markup the
\* editor reports to onChange afterwards.
InsertEmbed(html, index, latex) ==
    LET inner == EditorContents(html) IN
    << "<p>" >> \o SubSeq(inner, 1, index) \o << FormulaSpan(latex) >>
        \o SubSeq(inner, index + 1, Len(inner)) \o << "</p>" >>

(***************************************************************************)
(* RichTextViewer.  The div shows the content as parsed; the effect then   *)
(* rewrites the children of every formula marker and nothing else.  A node *)
(* of the div is the token it was parsed from and what its children show.  *)
(***************************************************************************)
\* The children the HTML parser built.
AsParsed == [kind |-> "parsed", of |-> EmptyString]
\* page.tsx: <span class="text-red-500">Invalid formula</span>
InvalidFormula == [kind |-> "invalid-formula", of |-> EmptyString]
\* part_000 / part_001: `[Error rendering formula: ${formula}]`
ErrorRenderingFormula(formula) == [kind |-> "error-text", of |-> formula]

\* page.tsx: const latex = node.getAttribute("data-value") || "";
\* try { node.innerHTML = katex.renderToString(latex, { throwOnError: false })
\* } catch { node.innerHTML = "...Invalid formula..." }
ViewerNodePage(token) ==
    IF ~IsFormula(token) THEN [markup |-> token, inner |-> AsParsed]
    ELSE LET attr == GetAttribute(token)
             latex == IF attr.null THEN EmptyString ELSE attr.value
             out == KatexRender(latex, FALSE)
         IN  [markup |-> token,
              inner |-> IF out.threw THEN InvalidFormula ELSE out.html]

\* part_000 / part_001: const formula = el.getAttribute("data-value");
\* if (formula) { try { katex.render(formula, el, { throwOnError: false }) }
\* catch (e) { el.textContent = `[Error rendering formula: ${formula}]` } }
ViewerNodeDialog(token) ==
    IF ~IsFormula(token) THEN [markup |-> token, inner |-> AsParsed]
    ELSE LET attr == GetAttribute(token) IN
         IF attr.null \/ attr.value = EmptyString
         THEN [markup |-> token, inner |-> AsParsed]
         ELSE LET out == KatexRender(attr.value, FALSE) IN
              [markup |-> token,
               inner |-> IF out.threw THEN ErrorRenderingFormula(attr.value)
                         ELSE out.html]

\* Contents handed to a viewer: a paragraph of up to MaxNodes letters and
\* formula markers.
ViewerTokens ==
    { "x", BareFormulaSpan, FormulaSpan(EmptyString), FormulaSpan(GoodLatex),
      FormulaSpan(BadLatex), FormulaSpan(DeepLatex) }
ViewerContents ==
    { << "<p>" >> \o body \o << "</p>" >> :
        body \in UNION { [1 .. n -> ViewerTokens] : n \in 0 .. MaxNodes } }

(***************************************************************************)
(* State.                                                                  *)
(***************************************************************************)
VARIABLES
    variant,          \* which page module this tab runs
    server,           \* the domains the backend holds
    pc,               \* "mounting", "hydrating", "ready" or "crashed"
    now,              \* the last value Date.now() returned
    slot,             \* localStorage["quizQuestions"]
    questions,        \* useState<Question[]>([])
    queued,           \* the setQuestions(...) the load effect asked for
    isDialogOpen,     \* dialog variants: useState<boolean>(false)
    questionText,     \* QuestionForm: useState("")
    options,          \* QuestionForm: useState([{text: ""}, {text: ""}])
    correct,          \* QuestionForm: useState(null) / useState([])
    explanation,      \* remote QuestionForm: useState("")
    minValue,         \* remote QuestionForm: useState(0)
    maxValue,         \* remote QuestionForm: useState(0)
    questiontype,     \* Modal: useState("")
    selecteddomain,   \* Modal: useState("")
    selectedsubject,  \* Modal: useState("")
    domains,          \* Modal: useState() , undefined until fetched
    subjects,         \* Modal: useState() , undefined until fetched
    domainCall,       \* GetAllDomain(): "idle", "pending" or "settled"
    subjectCalls,     \* GetAllSubjects(d) calls awaited, in issue order
    createCalls,      \* AddQuestion(d, data) calls awaited, in issue order
    showLatexDialog,  \* inline / remote QuestionForm: useState(false)
    activeEditor,     \* inline / remote QuestionForm: useState(null)
    input,            \* LatexEditor: useState("")
    error,            \* LatexEditor: useState<string | null>(null)
    content,          \* RichTextViewer: the content prop
    dom,              \* RichTextViewer: the children of its div
    alertMsg,         \* the alert() the last click raised, or "none"
    preReload         \* history: the questions in memory at the reload, until
                      \* the mount that follows it has settled

pageVars == << questiontype, selecteddomain, selectedsubject, domains, subjects >>
formVars == << questionText, options, correct, explanation, minValue, maxValue >>
callVars == << domainCall, subjectCalls, createCalls >>
latexVars == << showLatexDialog, activeEditor, input, error >>
viewerVars == << content, dom >>
vars == << variant, server, pc, now, slot, questions, queued, isDialogOpen, formVars,
           pageVars, callVars, latexVars, viewerVars, alertMsg, preReload >>


BlankOptions == << [text |-> EmptyString], [text |-> EmptyString] >>
NoCorrect == IF variant = "remote" THEN {} ELSE Null

\* The state of a freshly mounted QuestionForm.
FormInitial ==
    /\ questionText' = EmptyString
    /\ options' = BlankOptions
    /\ correct' = NoCorrect
    /\ explanation' = EmptyString
    /\ minValue' = 0
    /\ maxValue' = 0

\* The state of a freshly mounted formula dialog and LatexEditor.
LatexInitial ==
    /\ showLatexDialog' = FALSE
    /\ activeEditor' = Null
    /\ input' = EmptyString
    /\ error' = Null

\* The state of a freshly mounted page component.
PageInitial ==
    /\ questiontype' = ""
    /\ selecteddomain' = EmptyString
    /\ selectedsubject' = EmptyString
    /\ domains' = Undefined
    /\ subjects' = Undefined

\* The state before the first commit, in front of a backend that holds the
\* domains `backend`.
InitOn(backend) ==
    /\ variant \in Variants
    /\ server = backend
    /\ pc = "mounting"
    /\ now = 0
    /\ slot \in { NoItem, Garbage }
    /\ questions = << >>
    /\ queued = Undefined
    /\ isDialogOpen = FALSE
    /\ questionText = EmptyString
    /\ options = BlankOptions
    /\ correct = NoCorrect
    /\ explanation = EmptyString
    /\ minValue = 0
    /\ maxValue = 0
    /\ questiontype = ""
    /\ selecteddomain = EmptyString
    /\ selectedsubject = EmptyString
    /\ domains = Undefined
    /\ subjects = Undefined
    /\ domainCall = "idle"
    /\ subjectCalls = << >>
    /\ createCalls = << >>
    /\ showLatexDialog = FALSE
    /\ activeEditor = Null
    /\ input = EmptyString
    /\ error = Null
    /\ content = EmptyString
    /\ dom = << >>
    /\ alertMsg = "none"
    /\ preReload = << >>

Init == InitOn(ServerDomains)

(***************************************************************************)
(* Mount.                                                                  *)
(***************************************************************************)
\* Whether the load effect wraps its body in try/catch.
LoadIsGuarded == variant \in DialogVariants

\* The effects of the first commit, in declaration order: the load effect
\* reads the slot (JSON.parse throws on text that is no JSON; only the dialog
\* variants catch it), the remote variant starts fetchDomains, and the
\* persist effect writes the questions of the first render, [].  An effect
\* that throws ends the commit of its component and unmounts the tree.
MountEffects ==
    /\ pc = "mounting"
    /\ IF slot.kind = "garbage" /\ ~LoadIsGuarded
       THEN /\ pc' = "crashed"
            /\ UNCHANGED << slot, queued, domainCall >>
       ELSE /\ queued' = IF slot.kind = "json" THEN Defined(ParseValue(slot.doc))
                         ELSE Undefined
            /\ pc' = IF slot.kind = "json" THEN "hydrating" ELSE "ready"
            /\ slot' = PersistEffect(questions)
            /\ domainCall' = IF variant = "remote" THEN "pending" ELSE domainCall
    /\ preReload' = IF pc' = "hydrating" THEN preReload ELSE << >>
    /\ UNCHANGED << variant, server, now, questions, isDialogOpen, formVars, pageVars,
                    subjectCalls, createCalls, alertMsg,
                    latexVars, viewerVars >>

\* The render the load effect's setQuestions asked for, and its persist
\* effect.
Hydrate ==
    /\ pc = "hydrating"
    /\ questions' = queued.value
    /\ slot' = PersistEffect(questions')
    /\ queued' = Undefined
    /\ pc' = "ready"
    /\ preReload' = << >>
    /\ UNCHANGED << variant, server, now, isDialogOpen, formVars, pageVars, callVars,
                    alertMsg,
                    latexVars, viewerVars >>

\* The user reloads the tab: every component state is lost, awaited calls
\* are abandoned, the slot stays.
Reload ==
    /\ pc \in { "ready", "crashed" }
    /\ pc' = "mounting"
    /\ preReload' = questions
    /\ questions' = << >>
    /\ queued' = Undefined
    /\ isDialogOpen' = FALSE
    /\ FormInitial
    /\ PageInitial
    /\ LatexInitial
    /\ domainCall' = "idle"
    /\ subjectCalls' = << >>
    /\ createCalls' = << >>
    /\ alertMsg' = "none"
    /\ UNCHANGED << variant, server, now, slot, viewerVars >>

(***************************************************************************)
(* The clock.  Date.now() returns a value that is not smaller than the one *)
(* it returned before; two calls may return the same value.                *)
(***************************************************************************)
DateNow(t) == t \in now .. MaxClock /\ now' = t

(***************************************************************************)
(* The question store.                                                     *)
(***************************************************************************)
\* A removal that drops the last element whatever the index.
RemoveLast(seq, i) == SubSeq(seq, 1, Len(seq) - 1)

RemoveAt(seq, i) == SubSeq(seq, 1, i - 1) \o SubSeq(seq, i + 1, Len(seq))

\* dialog variants: setQuestions([...questions, newQuestion]);
\* setIsDialogOpen(false).  The closed dialog unmounts the form.
HandleAddQuestion(newQuestion) ==
    /\ questions' = Append(questions, newQuestion)
    /\ slot' = PersistEffect(questions')
    /\ isDialogOpen' = FALSE
    /\ FormInitial

\* A store that puts the new question first.
HandleSaveQuestionFirst(q) ==
    /\ questions' = << q >> \o questions
    /\ slot' = PersistEffect(questions')

\* inline and remote variants: setQuestions([...questions, q])
HandleSaveQuestion(q) ==
    /\ questions' = Append(questions, q)
    /\ slot' = PersistEffect(questions')

\* dialog variants: setQuestions(questions.filter((_, index) => index !==
\* indexToDelete)).  The list behind an open modal dialog takes no clicks.
HandleDeleteQuestion(indexToDelete) ==
    /\ pc = "ready"
    /\ variant \in DialogVariants
    /\ ~isDialogOpen
    /\ indexToDelete \in 0 .. Len(questions) - 1
    /\ questions' = RemoveAt(questions, indexToDelete + 1)
    /\ slot' = PersistEffect(questions')
    /\ alertMsg' = "none"
    /\ UNCHANGED << variant, server, pc, now, queued, isDialogOpen, formVars, pageVars,
                    callVars, preReload,
                    latexVars, viewerVars >>

(***************************************************************************)
(* The dialog of the dialog variants.                                      *)
(***************************************************************************)
\* Dialog onOpenChange={setIsDialogOpen}: the form is mounted on opening and
\* unmounted on closing.
SetIsDialogOpen(open) ==
    /\ pc = "ready"
    /\ variant \in DialogVariants
    /\ isDialogOpen # open
    /\ isDialogOpen' = open
    /\ FormInitial
    /\ alertMsg' = "none"
    /\ UNCHANGED << variant, server, pc, now, slot, questions, queued, pageVars, callVars,
                    preReload,
                    latexVars, viewerVars >>

(***************************************************************************)
(* Form editing.                                                           *)
(***************************************************************************)
\* The formula dialog is modal: the form behind it takes no input.
FormShown ==
    /\ pc = "ready"
    /\ variant \in DialogVariants => isDialogOpen
    /\ ~showLatexDialog
\* The remote form shows the option editors unless the type is NAT.
OptionsShown == FormShown /\ ~(variant = "remote" /\ questiontype = "NAT")

\* Quill onChange={setQuestionText}
SetQuestionText(value) ==
    /\ FormShown
    /\ questionText' = value
    /\ alertMsg' = "none"
    /\ UNCHANGED << variant, server, pc, now, slot, questions, queued, isDialogOpen,
                    options, correct, explanation, minValue, maxValue, pageVars,
                    callVars, preReload,
                    latexVars, viewerVars >>

\* An option editor whose write also lands in the option of the same index
\* of the question stored last.
HandleOptionTextChangeShared(value, index) ==
    /\ OptionsShown
    /\ index \in 0 .. Len(options) - 1
    /\ options' = [options EXCEPT ![index + 1].text = value]
    /\ questions' =
           IF questions # << >>
              /\ index + 1 <= Len(questions[Len(questions)].options)
           THEN [questions EXCEPT ![Len(questions)].options[index + 1].text = EmptyString]
           ELSE questions
    /\ alertMsg' = "none"
    /\ UNCHANGED << variant, server, pc, now, slot, queued, isDialogOpen,
                    questionText, correct, explanation, minValue, maxValue,
                    pageVars, callVars, preReload,
                    latexVars, viewerVars >>

\* newOptions[index].text = value; setOptions(newOptions)
HandleOptionTextChange(value, index) ==
    /\ OptionsShown
    /\ index \in 0 .. Len(options) - 1
    /\ options' = [options EXCEPT ![index + 1].text = value]
    /\ alertMsg' = "none"
    /\ UNCHANGED << variant, server, pc, now, slot, questions, queued, isDialogOpen,
                    questionText, correct, explanation, minValue, maxValue,
                    pageVars, callVars, preReload,
                    latexVars, viewerVars >>

\* dialog variants: if (options.length < 5) setOptions([...options, {text: ""}])
\* inline and remote variants: setOptions([...options, { text: "" }])
HandleAddOption ==
    /\ OptionsShown
    /\ Len(options) < MaxOptions
    /\ variant \in DialogVariants => Len(options) < OptionLimit
    /\ options' = Append(options, [text |-> EmptyString])
    /\ alertMsg' = "none"
    /\ UNCHANGED << variant, server, pc, now, slot, questions, queued, isDialogOpen,
                    questionText, correct, explanation, minValue, maxValue,
                    pageVars, callVars, preReload,
                    latexVars, viewerVars >>

\* dialog variants: if (options.length > 2)
\*   setOptions(options.filter((_, index) => index !== indexToRemove))
HandleRemoveOption(indexToRemove) ==
    /\ OptionsShown
    /\ variant \in DialogVariants
    /\ indexToRemove \in 0 .. Len(options) - 1
    /\ Len(options) > OptionFloor
    /\ options' = RemoveAt(options, indexToRemove + 1)
    /\ alertMsg' = "none"
    /\ UNCHANGED << variant, server, pc, now, slot, questions, queued, isDialogOpen,
                    questionText, correct, explanation, minValue, maxValue,
                    pageVars, callVars, preReload,
                    latexVars, viewerVars >>

\* dialog and inline variants, the radio of option `index`:
\* setCorrect(index.toString())
SetCorrect(index) ==
    /\ OptionsShown
    /\ variant # "remote"
    /\ index \in 0 .. Len(options) - 1
    /\ correct' = NotNull(NumberToString(index))
    /\ alertMsg' = "none"
    /\ UNCHANGED << variant, server, pc, now, slot, questions, queued, isDialogOpen,
                    questionText, options, explanation, minValue, maxValue,
                    pageVars, callVars, preReload,
                    latexVars, viewerVars >>

\* remote variant, the checkbox of option `index`: togglecorrect(index.toString()).
\* The array `correct` is read only through includes and length; a set models it.
ToggleCorrect(index) ==
    /\ OptionsShown
    /\ variant = "remote"
    /\ index \in 0 .. Len(options) - 1
    /\ LET optionId == NumberToString(index)
       IN  correct' = IF optionId \in correct
                      THEN correct \ { optionId }
                      ELSE correct \cup { optionId }
    /\ alertMsg' = "none"
    /\ UNCHANGED << variant, server, pc, now, slot, questions, queued, isDialogOpen,
                    questionText, options, explanation, minValue, maxValue,
                    pageVars, callVars, preReload,
                    latexVars, viewerVars >>

\* remote variant: Quill onChange={setExplanation}
SetExplanation(value) ==
    /\ FormShown
    /\ variant = "remote"
    /\ explanation' = value
    /\ alertMsg' = "none"
    /\ UNCHANGED << variant, server, pc, now, slot, questions, queued, isDialogOpen,
                    questionText, options, correct, minValue, maxValue, pageVars,
                    callVars, preReload,
                    latexVars, viewerVars >>

(***************************************************************************)
(* Save, dialog variants (part_000 handleSubmit, part_001 save).           *)
(***************************************************************************)
\* The first check that fails, or "ok".
SubmitVerdict ==
    IF TrimsToNothing(questionText) \/ questionText = EmptyParagraph
    THEN "question"
    ELSE IF \E i \in 1 .. Len(options) :
                TrimsToNothing(options[i].text) \/ options[i].text = EmptyParagraph
    THEN "options"
    ELSE IF correct = Null
    THEN "correct"
    ELSE "ok"

HandleSubmit(t) ==
    /\ FormShown
    /\ variant \in DialogVariants
    /\ IF SubmitVerdict # "ok"
       THEN /\ alertMsg' = SubmitVerdict
            /\ t = now
            /\ UNCHANGED << now, slot, questions, isDialogOpen, formVars >>
       ELSE /\ Len(questions) < MaxQuestions
            /\ DateNow(t)
            /\ HandleAddQuestion([id |-> t,
                                  question |-> questionText,
                                  options |-> options,
                                  correctAnswer |-> ParseInt(correct.value)])
            /\ alertMsg' = "none"
    /\ UNCHANGED << variant, server, pc, queued, pageVars, callVars, preReload,
                    latexVars, viewerVars >>

(***************************************************************************)
(* Save, inline variant (page.tsx 196-210).                                *)
(***************************************************************************)
\* A validation that lets a form without a correct answer pass.
InlineVerdictAnyCorrect ==
    IF TrimsToNothing(questionText)
    THEN "question"
    ELSE IF \E i \in 1 .. Len(options) : TrimsToNothing(options[i].text)
    THEN "options"
    ELSE "ok"

InlineVerdict ==
    IF TrimsToNothing(questionText)
    THEN "question"
    ELSE IF \E i \in 1 .. Len(options) : TrimsToNothing(options[i].text)
    THEN "options"
    ELSE IF correct = Null
    THEN "correct"
    ELSE "ok"

SaveQuestionInline(t) ==
    /\ FormShown
    /\ variant = "inline"
    /\ IF InlineVerdict # "ok"
       THEN /\ alertMsg' = InlineVerdict
            /\ t = now
            /\ UNCHANGED << now, slot, questions, formVars >>
       ELSE /\ Len(questions) < MaxQuestions
            /\ DateNow(t)
            /\ HandleSaveQuestion(
                   [id |-> NumberToString(t),
                    text |-> questionText,
                    options |-> [i \in 1 .. Len(options) |->
                                    [text |-> options[i].text,
                                     isCorrect |-> correct = NotNull(NumberToString(i - 1))]]])
            /\ questionText' = EmptyString
            /\ options' = BlankOptions
            /\ correct' = Null
            /\ alertMsg' = "none"
            /\ UNCHANGED << explanation, minValue, maxValue >>
    /\ UNCHANGED << variant, server, pc, queued, isDialogOpen, pageVars, callVars,
                    preReload,
                    latexVars, viewerVars >>

(***************************************************************************)
(* Save, remote variant (page.tsx 571-608).                                *)
(***************************************************************************)
\* A validation that looks at the question type before the question text.
RemoteVerdictTypeFirst ==
    IF questiontype = ""
    THEN "type"
    ELSE IF TrimsToNothing(questionText)
    THEN "question"
    ELSE IF questiontype # "NAT"
            /\ \E i \in 1 .. Len(options) : TrimsToNothing(options[i].text)
    THEN "options"
    ELSE IF questiontype # "NAT" /\ Cardinality(correct) = 0
    THEN "correct"
    ELSE IF TrimsToNothing(explanation)
    THEN "explanation"
    ELSE IF selecteddomain = EmptyString \/ selectedsubject = EmptyString
    THEN "domain"
    ELSE "ok"

RemoteVerdict ==
    IF TrimsToNothing(questionText)
    THEN "question"
    ELSE IF questiontype = ""
    THEN "type"
    ELSE IF questiontype # "NAT"
            /\ \E i \in 1 .. Len(options) : TrimsToNothing(options[i].text)
    THEN "options"
    ELSE IF questiontype # "NAT" /\ Cardinality(correct) = 0
    THEN "correct"
    ELSE IF TrimsToNothing(explanation)
    THEN "explanation"
    ELSE IF selecteddomain = EmptyString \/ selectedsubject = EmptyString
    THEN "domain"
    ELSE "ok"

\* if (typeofquestion === "NAT") setOptions([]) is reached once the first two
\* checks have passed.  It queues a state update: `options` of this click's
\* closure keeps its value.
ReachesNatClear == RemoteVerdict \notin { "question", "type" } /\ questiontype = "NAT"

\* The record saveQuestion builds from the values of its closure.
RemoteData(t) ==
    [id |-> NumberToString(t),
     text |-> questionText,
     options |-> [i \in 1 .. Len(options) |->
                     [text |-> options[i].text,
                      isCorrect |-> NumberToString(i - 1) \in correct]],
     explanation |-> explanation,
     subject_id |-> selectedsubject,
     min_value |-> minValue,
     max_value |-> maxValue,
     type |-> questiontype]

\* A create call that posts every question to domain 0.
AddQuestionUnscoped(domain_id, data) == [domain_id |-> 0, data |-> data]

\* AddQuestion(domain_id, data): the POST domains/{domain_id}/questions/add
\* that is now awaited.
AddQuestion(domain_id, data) == [domain_id |-> domain_id, data |-> data]

\* The click, up to the await.
\* A save that refuses a click while a create call is awaited.
SaveQuestionRemoteOnce(t) ==
    /\ FormShown
    /\ variant = "remote"
    /\ options' = IF ReachesNatClear THEN << >> ELSE options
    /\ IF RemoteVerdict # "ok" \/ createCalls # << >>
       THEN /\ alertMsg' = IF RemoteVerdict # "ok" THEN RemoteVerdict ELSE "pending"
            /\ t = now
            /\ UNCHANGED << now, slot, questions, createCalls >>
       ELSE /\ Len(questions) < MaxQuestions
            /\ DateNow(t)
            /\ HandleSaveQuestion(RemoteData(t))
            /\ createCalls' = Append(createCalls,
                                     AddQuestion(ParseInt(selecteddomain), RemoteData(t)))
            /\ alertMsg' = "none"
    /\ UNCHANGED << variant, server, pc, queued, isDialogOpen, questionText,
                    correct, explanation, minValue, maxValue, pageVars,
                    domainCall, subjectCalls, preReload, latexVars, viewerVars >>

SaveQuestionRemote(t) ==
    /\ FormShown
    /\ variant = "remote"
    /\ options' = IF ReachesNatClear THEN << >> ELSE options
    /\ IF RemoteVerdict # "ok"
       THEN /\ alertMsg' = RemoteVerdict
            /\ t = now
            /\ UNCHANGED << now, slot, questions, createCalls >>
       ELSE /\ Len(questions) < MaxQuestions
            /\ DateNow(t)
            /\ HandleSaveQuestion(RemoteData(t))
            /\ createCalls' = Append(createCalls,
                                     AddQuestion(ParseInt(selecteddomain), RemoteData(t)))
            /\ alertMsg' = "none"
    /\ UNCHANGED << variant, server, pc, queued, isDialogOpen, questionText, correct,
                    explanation, minValue, maxValue, pageVars, domainCall,
                    subjectCalls, preReload,
                    latexVars, viewerVars >>

\* A continuation that takes the question back out of the store when the
\* call rejected.
AddQuestionSettlesRollback(k, resolved) ==
    /\ pc = "ready"
    /\ k \in 1 .. Len(createCalls)
    /\ resolved \in BOOLEAN
    /\ createCalls' = RemoveAt(createCalls, k)
    /\ questions' = IF resolved THEN questions
                    ELSE SubSeq(questions, 1, Len(questions) - 1)
    /\ slot' = PersistEffect(questions')
    /\ questionText' = EmptyString
    /\ options' = BlankOptions
    /\ correct' = {}
    /\ explanation' = EmptyString
    /\ alertMsg' = "none"
    /\ UNCHANGED << variant, server, pc, now, queued, isDialogOpen, minValue, maxValue,
                    pageVars, domainCall, subjectCalls, preReload,
                    latexVars, viewerVars >>

\* A continuation that clears the form only when the create call resolved.
AddQuestionSettlesKeepsOnFailure(k, resolved) ==
    /\ pc = "ready"
    /\ k \in 1 .. Len(createCalls)
    /\ resolved \in BOOLEAN
    /\ createCalls' = RemoveAt(createCalls, k)
    /\ questionText' = IF resolved THEN EmptyString ELSE questionText
    /\ options' = IF resolved THEN BlankOptions ELSE options
    /\ correct' = IF resolved THEN {} ELSE correct
    /\ explanation' = IF resolved THEN EmptyString ELSE explanation
    /\ alertMsg' = "none"
    /\ UNCHANGED << variant, server, pc, now, slot, questions, queued, isDialogOpen,
                    minValue, maxValue, pageVars, domainCall, subjectCalls,
                    preReload,
                    latexVars, viewerVars >>

\* The continuation after the await: the call settled, resolved or rejected
\* (the catch block is empty), and the form is reset.
AddQuestionSettles(k, resolved) ==
    /\ pc = "ready"
    /\ k \in 1 .. Len(createCalls)
    /\ resolved \in BOOLEAN
    /\ createCalls' = RemoveAt(createCalls, k)
    /\ questionText' = EmptyString
    /\ options' = BlankOptions
    /\ correct' = {}
    /\ explanation' = EmptyString
    /\ alertMsg' = "none"
    /\ UNCHANGED << variant, server, pc, now, slot, questions, queued, isDialogOpen,
                    minValue, maxValue, pageVars, domainCall, subjectCalls,
                    preReload,
                    latexVars, viewerVars >>

(***************************************************************************)
(* Remote variant: type, domain and subject selectors.                     *)
(***************************************************************************)
\* SelectItem onClick={() => setquestionTyoe(t)}
SetQuestionType(t) ==
    /\ pc = "ready"
    /\ variant = "remote"
    /\ questiontype' = t
    /\ alertMsg' = "none"
    /\ UNCHANGED << variant, server, pc, now, slot, questions, queued, isDialogOpen,
                    formVars, selecteddomain, selectedsubject, domains, subjects,
                    callVars, preReload,
                    latexVars, viewerVars >>

\* fetchDomains: setDomains(result.data), or the error is logged.
DomainsSettle(resolved) ==
    /\ pc = "ready"
    /\ domainCall = "pending"
    /\ domainCall' = "settled"
    /\ domains' = IF resolved THEN Defined(server) ELSE domains
    /\ UNCHANGED << variant, server, pc, now, slot, questions, queued, isDialogOpen,
                    formVars, questiontype, selecteddomain, selectedsubject,
                    subjects, subjectCalls, createCalls, alertMsg, preReload,
                    latexVars, viewerVars >>

\* collectsubject(domainid), up to the await.  The items are those of the
\* fetched domain list.
CollectSubject(k) ==
    /\ pc = "ready"
    /\ variant = "remote"
    /\ domains.defined
    /\ k \in 1 .. Len(domains.value)
    /\ LET domainid == NumberToString(domains.value[k].id)
       IN  /\ selecteddomain' = domainid
           /\ subjectCalls' = Append(subjectCalls, domainid)
    /\ alertMsg' = "none"
    /\ UNCHANGED << variant, server, pc, now, slot, questions, queued, isDialogOpen,
                    formVars, questiontype, selectedsubject, domains, subjects,
                    domainCall, createCalls, preReload,
                    latexVars, viewerVars >>

\* collectsubject after the await: setSubjects(result?.data), or nothing when
\* the call rejected.
SubjectsSettle(k, resolved) ==
    /\ pc = "ready"
    /\ k \in 1 .. Len(subjectCalls)
    /\ subjectCalls' = RemoveAt(subjectCalls, k)
    /\ subjects' = IF resolved THEN Defined(ServerSubjects(subjectCalls[k]))
                   ELSE subjects
    /\ UNCHANGED << variant, server, pc, now, slot, questions, queued, isDialogOpen,
                    formVars, questiontype, selecteddomain, selectedsubject,
                    domains, domainCall, createCalls, alertMsg, preReload,
                    latexVars, viewerVars >>

\* SelectItem onClick={() => setSelectedSubject(element.id.toString())}
SetSelectedSubject(k) ==
    /\ pc = "ready"
    /\ variant = "remote"
    /\ subjects.defined
    /\ k \in 1 .. Len(subjects.value)
    /\ selectedsubject' = NumberToString(subjects.value[k].id)
    /\ alertMsg' = "none"
    /\ UNCHANGED << variant, server, pc, now, slot, questions, queued, isDialogOpen,
                    formVars, questiontype, selecteddomain, domains, subjects,
                    callVars, preReload,
                    latexVars, viewerVars >>

(***************************************************************************)
(* RichTextViewer (part_000 63-89, part_001 61-87, page.tsx 47-68 and      *)
(* 409-430).                                                               *)
(***************************************************************************)
\* The effect of the viewer on the div that shows `html`.
RenderFormulas(html) ==
    [i \in 1 .. Len(html) |->
        IF variant \in DialogVariants THEN ViewerNodeDialog(html[i])
        ELSE ViewerNodePage(html[i])]

\* A viewer is rendered with a content: React sets the div's innerHTML and
\* the effect, which depends on the content, runs.
ViewContent(html) ==
    /\ pc = "ready"
    /\ content' = html
    /\ dom' = RenderFormulas(html)
    /\ UNCHANGED << variant, server, pc, now, slot, questions, queued, isDialogOpen,
                    formVars, pageVars, callVars, latexVars, alertMsg,
                    preReload >>

(***************************************************************************)
(* Formula dialog and LatexEditor of the inline and remote variants        *)
(* (page.tsx 71-121, 154-194, 270-277, 433-483, 522-569, 725-732).         *)
(***************************************************************************)
\* The editors of the form, as the active-field record names them.
QuestionEditor == [type |-> "question"]
ExplanationEditor == [type |-> "explanation"]
OptionEditor(index) == [type |-> "option", index |-> index]
Editors ==
    { QuestionEditor, ExplanationEditor }
        \cup { OptionEditor(index) : index \in 0 .. MaxOptions - 1 }

\* optionRefs.current[index] holds an editor: the ref of an option row is
\* set while the row is rendered and set to null when the row goes away.
OptionRefSet(index) ==
    /\ index < Len(options)
    /\ ~(variant = "remote" /\ questiontype = "NAT")

\* The editor is on the page.
Mounted(editor) ==
    CASE editor.type = "question" -> TRUE
      [] editor.type = "explanation" -> variant = "remote"
      [] editor.type = "option" -> OptionRefSet(editor.index)

\* The string an editor shows.
FieldText(editor) ==
    CASE editor.type = "question" -> questionText
      [] editor.type = "explanation" -> explanation
      [] editor.type = "option" -> options[editor.index + 1].text

\* The render of LatexEditor until it asks for no further render:
\*   try { previewHtml = katex.renderToString(input, { throwOnError: true });
\*         if (error) setError(null); }
\*   catch (err) { if (!error) setError(err.message); }
\* A failure of KaTeX is caught whatever it is.
SettledError(latex, shown) ==
    LET out == KatexRender(latex, TRUE) IN
    IF out.threw THEN (IF shown.null THEN NotNull(out.message) ELSE shown)
    ELSE Null

\* {error ? <p>{error}</p> : <div dangerouslySetInnerHTML={previewHtml} />}
Preview ==
    IF ~error.null THEN [kind |-> "message", of |-> error.value.of]
    ELSE KatexRender(input, TRUE).html

\* The toolbar handler `formula` of the editor the button belongs to:
\* setActiveEditor(the editor); setShowLatexDialog(true).  The dialog mounts
\* a LatexEditor.
FormulaHandler(editor) ==
    /\ FormShown
    /\ variant \in { "inline", "remote" }
    /\ Mounted(editor)
    /\ Len(FormulasIn(FieldText(editor))) < MaxFormulas
    /\ activeEditor' = NotNull(editor)
    /\ showLatexDialog' = TRUE
    /\ alertMsg' = "none"
    /\ UNCHANGED << variant, server, pc, now, slot, questions, queued, isDialogOpen,
                    formVars, pageVars, callVars, input, error, viewerVars,
                    preReload >>

\* Dialog onOpenChange={setShowLatexDialog}, the user dismisses the dialog:
\* the LatexEditor is unmounted, the active-field record stays.
DismissLatexDialog ==
    /\ pc = "ready"
    /\ showLatexDialog
    /\ showLatexDialog' = FALSE
    /\ input' = EmptyString
    /\ error' = Null
    /\ alertMsg' = "none"
    /\ UNCHANGED << variant, server, pc, now, slot, questions, queued, isDialogOpen,
                    formVars, pageVars, callVars, activeEditor, viewerVars,
                    preReload >>

\* Textarea onChange={(e) => setInput(e.target.value)}
SetInput(value) ==
    /\ pc = "ready"
    /\ showLatexDialog
    /\ input' = value
    /\ error' = SettledError(value, error)
    /\ alertMsg' = "none"
    /\ UNCHANGED << variant, server, pc, now, slot, questions, queued, isDialogOpen,
                    formVars, pageVars, callVars, showLatexDialog,
                    activeEditor, viewerVars, preReload >>

\* The three branches of handleInsertFormula: the embed goes to the editor
\* the active-field record names, at the cursor of that editor, if the
\* editor is there; the editor reports its new markup to onChange.
InsertIntoActive(latex, index) ==
    LET editor == activeEditor.value IN
    IF ~Mounted(editor)
    THEN index = 0 /\ UNCHANGED << questionText, options, explanation >>
    ELSE /\ index \in 0 .. Len(EditorContents(FieldText(editor)))
         /\ CASE editor.type = "question" ->
                     /\ questionText' = InsertEmbed(questionText, index, latex)
                     /\ UNCHANGED << options, explanation >>
              [] editor.type = "option" ->
                     /\ options' = [options EXCEPT ![editor.index + 1].text =
                                        InsertEmbed(@, index, latex)]
                     /\ UNCHANGED << questionText, explanation >>
              [] editor.type = "explanation" ->
                     /\ explanation' = InsertEmbed(explanation, index, latex)
                     /\ UNCHANGED << questionText, options >>

\* handleInsertFormula(latex): if (!activeEditor) return; insert;
\* setShowLatexDialog(false); setActiveEditor(null).  The closed dialog
\* unmounts the LatexEditor.
HandleInsertFormula(latex, index) ==
    IF activeEditor.null
    THEN /\ index = 0
         /\ UNCHANGED << questionText, options, explanation, showLatexDialog,
                         activeEditor >>
         /\ input' = EmptyString
         /\ error' = SettledError(EmptyString, error)
    ELSE /\ InsertIntoActive(latex, index)
         /\ showLatexDialog' = FALSE
         /\ activeEditor' = Null
         /\ input' = EmptyString
         /\ error' = Null

\* Button "Insert Formula":
\* if (input.trim()) { onInsert(input); setInput(""); }
InsertFormulaClick(index) ==
    /\ pc = "ready"
    /\ showLatexDialog
    /\ IF TrimsToNothing(input)
       THEN index = 0 /\ UNCHANGED << formVars, latexVars >>
       ELSE /\ HandleInsertFormula(input, index)
            /\ UNCHANGED << correct, minValue, maxValue >>
    /\ alertMsg' = "none"
    /\ UNCHANGED << variant, server, pc, now, slot, questions, queued, isDialogOpen,
                    pageVars, callVars, viewerVars, preReload >>

(***************************************************************************)
(* Remote variant: the answer range of a NAT question (page.tsx 640-661).  *)
(***************************************************************************)
\* Numbers the user enters into the min and max inputs.
NumberInputs == { 0, 1 }

\* The min and max inputs are rendered while the type is NAT.
RangeShown == FormShown /\ variant = "remote" /\ questiontype = "NAT"

\* <input type="number" onChange={(e) => setMinValue(Number(e.target.value))}>
SetMinValue(value) ==
    /\ RangeShown
    /\ minValue' = value
    /\ alertMsg' = "none"
    /\ UNCHANGED << variant, server, pc, now, slot, questions, queued, isDialogOpen,
                    questionText, options, correct, explanation, maxValue,
                    pageVars, callVars, preReload, latexVars, viewerVars >>

\* <input type="number" onChange={(e) => setMaxValue(Number(e.target.value))}>
SetMaxValue(value) ==
    /\ RangeShown
    /\ maxValue' = value
    /\ alertMsg' = "none"
    /\ UNCHANGED << variant, server, pc, now, slot, questions, queued, isDialogOpen,
                    questionText, options, correct, explanation, minValue,
                    pageVars, callVars, preReload, latexVars, viewerVars >>

(***************************************************************************)
(* Specification.                                                          *)
(***************************************************************************)
\* The mount and the reload of a tab.
Lifecycle ==
    \/ MountEffects
    \/ Hydrate
    \/ Reload

\* The events of a dialog variant's tab whose user types question texts from
\* QT and option texts from OT and leaves the number of options alone.
DialogStep(QT, OT) ==
    \/ \E open \in BOOLEAN : SetIsDialogOpen(open)
    \/ \E value \in QT : variant \in DialogVariants /\ SetQuestionText(value)
    \/ \E value \in OT, index \in 0 .. MaxOptions :
           variant \in DialogVariants /\ HandleOptionTextChange(value, index)
    \/ \E index \in 0 .. MaxOptions :
           variant \in DialogVariants /\ SetCorrect(index)
    \/ \E t \in 0 .. MaxClock : HandleSubmit(t)
    \/ \E index \in 0 .. MaxQuestions : HandleDeleteQuestion(index)

\* Add Option and Remove in a dialog variant's tab.
DialogResize ==
    \/ variant \in DialogVariants /\ HandleAddOption
    \/ \E index \in 0 .. MaxOptions : HandleRemoveOption(index)

\* The events of the inline variant's tab, Add Option apart.
InlineStep(QT, OT) ==
    \/ \E value \in QT : variant = "inline" /\ SetQuestionText(value)
    \/ \E value \in OT, index \in 0 .. MaxOptions :
           variant = "inline" /\ HandleOptionTextChange(value, index)
    \/ \E index \in 0 .. MaxOptions : variant = "inline" /\ SetCorrect(index)
    \/ \E t \in 0 .. MaxClock : SaveQuestionInline(t)

\* Add Option in the inline variant's tab.
InlineResize == variant = "inline" /\ HandleAddOption

\* The events of the remote variant's tab, Add Option apart: the user also
\* types explanations from XT and picks question types from TY, the backend
\* answers with the outcomes in RS (TRUE: resolved, FALSE: rejected), and a
\* form that passes validation is saved while the store holds fewer than
\* `room` questions and fewer than `creates` create calls are awaited; a
\* subject fetch is started while fewer than `fetches` are awaited.
RemoteStep(QT, OT, XT, TY, RS, room, creates, fetches) ==
    \/ \E value \in QT : variant = "remote" /\ SetQuestionText(value)
    \/ \E value \in OT, index \in 0 .. MaxOptions :
           variant = "remote" /\ HandleOptionTextChange(value, index)
    \/ \E index \in 0 .. MaxOptions : ToggleCorrect(index)
    \/ \E value \in XT : SetExplanation(value)
    \/ \E t \in 0 .. MaxClock :
           /\ RemoteVerdict = "ok" =>
                  Len(questions) < room /\ Len(createCalls) < creates
           /\ SaveQuestionRemote(t)
    \/ \E k \in 1 .. creates, resolved \in RS : AddQuestionSettles(k, resolved)
    \/ \E t \in TY : SetQuestionType(t)
    \/ \E resolved \in RS : DomainsSettle(resolved)
    \/ \E k \in 1 .. Len(server) :
           Len(subjectCalls) < fetches /\ CollectSubject(k)
    \/ \E k \in 1 .. fetches, resolved \in RS : SubjectsSettle(k, resolved)
    \/ \E k \in 1 .. (IF subjects.defined THEN Len(subjects.value) ELSE 0) :
           SetSelectedSubject(k)

\* Every variant, with users who type texts that pass validation and, in the
\* remote variant, write multiple-choice questions.
Next ==
    \/ Lifecycle
    \/ DialogStep(QuestionTextInputs, OptionTextInputs)
    \/ DialogResize
    \/ InlineStep(QuestionTextInputs, OptionTextInputs)
    \/ InlineResize
    \/ RemoteStep(QuestionTextInputs, OptionTextInputs, ExplanationInputs,
                  { "MCQ" }, BOOLEAN, MaxQuestions, MaxPending, MaxPending)

Spec == Init /\ [][Next]_vars

\* The variants that keep their questions in the browser only, with users
\* who also type blank texts and leave the editor's empty paragraph behind.
InitForm == Init /\ variant # "remote"

NextForm ==
    \/ Lifecycle
    \/ DialogStep(SentinelQuestionTexts, SentinelOptionTexts)
    \/ InlineStep(SentinelQuestionTexts, SentinelOptionTexts)

SpecForm == InitForm /\ [][NextForm]_vars

\* The remote variant with every question type and up to MaxStored questions
\* in the store.
InitRemote == Init /\ variant = "remote"

NextRemote ==
    \/ Lifecycle
    \/ RemoteStep(QuestionTextInputs, OptionTextInputs, ExplanationInputs,
                  QuestionTypes, BOOLEAN, MaxStored, MaxPending, MaxPending)

SpecRemote == InitRemote /\ [][NextRemote]_vars

\* A viewer of any variant, handed every content of ViewerContents in turn.
InitViewer == Init /\ slot = NoItem

NextViewer ==
    \/ MountEffects
    \/ \E html \in ViewerContents : ViewContent(html)

SpecViewer == InitViewer /\ [][NextViewer]_vars

\* Expressions the user types into the LatexEditor.
LatexInputs ==
    { EmptyString, BlankString, GoodLatex, PaddedLatex, BadLatex,
      OtherBadLatex, DeepLatex }

\* The events of the formula dialog, with a user who types expressions from
\* LI and places the cursor anywhere in the target editor.
FormulaStep(LI) ==
    \/ \E editor \in Editors : FormulaHandler(editor)
    \/ DismissLatexDialog
    \/ \E value \in LI : SetInput(value)
    \/ \E index \in 0 .. MaxFormulas : InsertFormulaClick(index)

\* The inline and remote variants with users who type a question text and
\* put formulas into the fields of the form.
InitFormula == Init /\ variant \in { "inline", "remote" } /\ slot = NoItem

NextFormula ==
    \/ Lifecycle
    \/ FormulaStep(LatexInputs)
    \/ \E value \in QuestionTextInputs :
           variant \notin DialogVariants /\ SetQuestionText(value)

SpecFormula == InitFormula /\ [][NextFormula]_vars

\* The remote variant with users who fill the form with formulas only, add
\* options, save multiple-choice questions and use the formula dialog while
\* a create call is awaited.
InitFormulaRemote == Init /\ variant = "remote" /\ slot = NoItem

NextFormulaRemote ==
    \/ MountEffects
    \/ FormulaStep({ GoodLatex })
    \/ variant = "remote" /\ HandleAddOption
    \/ \E index \in 0 .. MaxOptions : ToggleCorrect(index)
    \/ \E t \in 0 .. MaxClock :
           /\ RemoteVerdict = "ok" =>
                  Len(questions) < MaxStored /\ Len(createCalls) < MaxPending
           /\ SaveQuestionRemote(t)
    \/ \E k \in 1 .. MaxPending, resolved \in BOOLEAN :
           AddQuestionSettles(k, resolved)
    \/ SetQuestionType("MCQ")
    \/ \E resolved \in BOOLEAN : DomainsSettle(resolved)
    \/ \E k \in 1 .. Len(server) :
           Len(subjectCalls) < MaxPending /\ CollectSubject(k)
    \/ \E k \in 1 .. MaxPending, resolved \in BOOLEAN : SubjectsSettle(k, resolved)
    \/ \E k \in 1 .. (IF subjects.defined THEN Len(subjects.value) ELSE 0) :
           SetSelectedSubject(k)

SpecFormulaRemote == InitFormulaRemote /\ [][NextFormulaRemote]_vars

\* The remote variant with users who write NAT questions and enter the
\* answer range.
NextNat ==
    \/ Lifecycle
    \/ RemoteStep(QuestionTextInputs, OptionTextInputs, ExplanationInputs,
                  { "NAT" }, BOOLEAN, MaxStored, MaxPending, MaxPending)
    \/ \E value \in NumberInputs : SetMinValue(value)
    \/ \E value \in NumberInputs : SetMaxValue(value)

SpecNat == InitRemote /\ [][NextNat]_vars

\* The remote variant with up to MaxRacing create calls awaited at once.
NextRace ==
    \/ Lifecycle
    \/ RemoteStep(QuestionTextInputs, OptionTextInputs, ExplanationInputs,
                  { "MCQ" }, BOOLEAN, MaxQuestions, MaxRacing, MaxPending)

SpecRace == InitRemote /\ [][NextRace]_vars

\* The remote variant in front of a backend with two domains, with up to
\* MaxRacing subject fetches awaited at once.
InitSubjects == InitOn(ServerTwoDomains) /\ variant = "remote" /\ slot = NoItem

NextSubjects ==
    \/ MountEffects
    \/ RemoteStep(QuestionTextInputs, OptionTextInputs, ExplanationInputs,
                  { "MCQ" }, BOOLEAN, MaxStored, MaxPending, MaxRacing)

SpecSubjects == InitSubjects /\ [][NextSubjects]_vars

(***************************************************************************)
(* Properties.                                                             *)
(***************************************************************************)
\* A click on Save (Save Question, Add Question), in any variant.
SaveClick ==
    \E t \in 0 .. MaxClock :
        HandleSubmit(t) \/ SaveQuestionInline(t) \/ SaveQuestionRemote(t)

\* What the validation of the current variant says about the current form.
FormVerdict ==
    IF variant \in DialogVariants THEN SubmitVerdict
    ELSE IF variant = "inline" THEN InlineVerdict
    ELSE RemoteVerdict

\* The body of a stored question: `question` in the dialog variants, `text`
\* in the others.
QuestionBody(q) == IF "question" \in DOMAIN q THEN q.question ELSE q.text

\* A stored question without a type is a multiple-choice question.
IsNat(q) == "type" \in DOMAIN q /\ q.type = "NAT"

\* A text the requirements accept neither as a question nor as an option.
Unusable(text) == TrimsToNothing(text) \/ text = EmptyParagraph

\* C1: in every variant, a Save click on a form that passes validation makes
\* the store one question longer, the new question is last and carries the
\* form's question text, and the questions stored before keep their position
\* and content.
C1_SaveAppendsOne ==
    [][(SaveClick /\ FormVerdict = "ok") =>
           /\ Len(questions') = Len(questions) + 1
           /\ SubSeq(questions', 1, Len(questions)) = questions
           /\ QuestionBody(questions'[Len(questions')]) = questionText]_vars

\* An accepted save has just filled the remote variant's store with two
\* different questions; its create request is awaited.
C1_Witness ==
    /\ variant = "remote"
    /\ Len(questions) = MaxQuestions
    /\ questions[1] # questions[2]
    /\ createCalls # << >>
    /\ createCalls[1].data = questions[Len(questions)]

\* C2: when a reload has read the slot and rendered what it holds, the
\* questions in memory are, element by element and in order, the questions
\* that were in memory when the tab was reloaded.
C2_ReloadRoundTrip ==
    [][(pc # "ready" /\ pc' = "ready") => questions' = preReload]_vars

\* A reload of a tab that held two different questions has read the slot.
C2_Witness ==
    /\ pc = "hydrating"
    /\ Len(preReload) = MaxQuestions
    /\ preReload[1] # preReload[2]
    /\ queued.defined

\* C3: whenever the handling of an event has settled, the slot holds the
\* serialization of the whole sequence in memory.
C3_SlotMirrorsStore ==
    pc = "ready" => slot = JsonText(Stringify(questions))

\* A dialog variant has settled with one question in the store, saved at the
\* latest clock value, and one question in the slot.
C3_Witness ==
    /\ pc = "ready"
    /\ variant \in DialogVariants
    /\ Len(questions) = 1
    /\ questions[1].id = MaxClock
    /\ now = MaxClock
    /\ ~isDialogOpen
    /\ slot.kind = "json"
    /\ Len(slot.doc[2]) = 1

\* C4: in every variant a Save click while the question body is empty,
\* whitespace only or the empty paragraph is rejected, and the store and the
\* slot stay as they are.
C4_EmptyBodyRejected ==
    [][(SaveClick /\ Unusable(questionText)) =>
           /\ alertMsg' # "none"
           /\ questions' = questions
           /\ slot' = slot]_vars

\* C5: a Save click for a multiple-choice question with no correct answer
\* selected appends nothing to the store and, in the remote variant, issues
\* no create request.
C5_NoCorrectRejected ==
    [][(/\ SaveClick
        /\ variant = "remote" => questiontype = "MCQ"
        /\ correct = NoCorrect) =>
           /\ alertMsg' # "none"
           /\ questions' = questions
           /\ createCalls' = createCalls]_vars

\* The remote variant has just refused a multiple-choice question whose texts
\* are all typed, for its missing correct answer.
C5_Witness ==
    /\ variant = "remote"
    /\ questiontype = "MCQ"
    /\ alertMsg = "correct"
    /\ correct = {}
    /\ questions # << >>

\* The options a stored question of the inline or remote variant marks
\* correct.
Marked(q) == { i \in 1 .. Len(q.options) : q.options[i].isCorrect }

\* C6: every stored MCQ has exactly one option marked correct, every stored
\* MSQ at least one, and a stored correctAnswer is the index of one of the
\* question's options.
C6_CorrectMarksValid ==
    \A i \in 1 .. Len(questions) :
        LET q == questions[i]
        IN  IF "correctAnswer" \in DOMAIN q
            THEN q.correctAnswer \in 0 .. Len(q.options) - 1
            ELSE IF "type" \in DOMAIN q
            THEN /\ q.type = "MCQ" => Cardinality(Marked(q)) = 1
                 /\ q.type = "MSQ" => Cardinality(Marked(q)) >= 1
            ELSE Cardinality(Marked(q)) = 1

\* C7: every stored question that is not NAT has between 2 and 5 options.
C7_OptionCountInRange ==
    \A i \in 1 .. Len(questions) :
        ~IsNat(questions[i]) =>
            Len(questions[i].options) \in OptionFloor .. OptionLimit

\* C8: every option of every stored question that is not NAT has a text that
\* is not empty, not whitespace only and not the empty paragraph.
C8_OptionTextsUsable ==
    \A i \in 1 .. Len(questions) :
        ~IsNat(questions[i]) =>
            \A j \in 1 .. Len(questions[i].options) :
                ~Unusable(questions[i].options[j].text)

\* C9: every stored NAT question, and every record sent to the backend for a
\* NAT question, has no options.
C9_NatHasNoOptions ==
    /\ \A i \in 1 .. Len(questions) :
           IsNat(questions[i]) => questions[i].options = << >>
    /\ \A k \in 1 .. Len(createCalls) :
           IsNat(createCalls[k].data) => createCalls[k].data.options = << >>

\* The checks of the remote variant's validation that the current form
\* fails, each looked at on its own.
FailingChecks ==
    { c \in { "question", "type", "options", "correct", "explanation", "domain" } :
        CASE c = "question" -> TrimsToNothing(questionText)
          [] c = "type" -> questiontype = ""
          [] c = "options" -> /\ questiontype # "NAT"
                              /\ \E i \in 1 .. Len(options) :
                                     TrimsToNothing(options[i].text)
          [] c = "correct" -> questiontype # "NAT" /\ correct = {}
          [] c = "explanation" -> TrimsToNothing(explanation)
          [] c = "domain" -> selecteddomain = EmptyString
                             \/ selectedsubject = EmptyString }

\* The order the requirements give the checks.
CheckOrder == << "question", "type", "options", "correct", "explanation", "domain" >>

\* C10: a Save click in the remote variant shows the message of the first
\* check, in the order question text, question type, option texts, correct
\* answer, explanation, domain and subject, that the form fails, and no
\* other; what follows a failed question or type check is not run: the
\* options are not cleared.
C10_FirstFailingCheckShown ==
    [][(\E t \in 0 .. MaxClock : SaveQuestionRemote(t)) =>
           IF FailingChecks = {}
           THEN alertMsg' = "none"
           ELSE LET first == CHOOSE i \in 1 .. Len(CheckOrder) :
                                 /\ CheckOrder[i] \in FailingChecks
                                 /\ \A j \in 1 .. i - 1 :
                                        CheckOrder[j] \notin FailingChecks
                IN  /\ alertMsg' = CheckOrder[first]
                    /\ first <= 2 => options' = options]_vars

\* The type check has just failed on a form that fails three later checks
\* too.
C10_Witness ==
    /\ variant = "remote"
    /\ alertMsg = "type"
    /\ { "options", "explanation", "domain" } \subseteq FailingChecks
    /\ "question" \notin FailingChecks

\* C11: a Save click on a form that fails a validation check changes nothing:
\* the store, the slot, every field of the form and the awaited create
\* requests are after the click what they were before it.
C11_RejectedSaveChangesNothing ==
    [][(SaveClick /\ FormVerdict # "ok") =>
           /\ alertMsg' # "none"
           /\ UNCHANGED << questions, slot, formVars, createCalls >>]_vars

C13_CorruptSlotLoadsEmpty ==
    [][(pc = "mounting" /\ slot = Garbage) =>
           (pc' = "ready" /\ questions' = << >>)]_vars

\* C14: in the remote variant a create request is only ever awaited for a
\* question the store already holds, as its last element at the moment the
\* request is issued; the store loses nothing when a request resolves or
\* rejects, and nothing while a request stays unanswered.
C14_AppendBeforeRequestAndKept ==
    [][variant = "remote" =>
           /\ Len(createCalls') > Len(createCalls) =>
                  /\ Len(questions') = Len(questions) + 1
                  /\ createCalls'[Len(createCalls')].data = questions'[Len(questions')]
           /\ \A k \in 1 .. MaxPending, resolved \in BOOLEAN :
                  AddQuestionSettles(k, resolved) => questions' = questions
           /\ (pc = "ready" /\ pc' = "ready") =>
                  SubSeq(questions', 1, Len(questions)) = questions]_vars

\* A create request is still unanswered, the store holds its question, and
\* the user has already unticked every correct mark of the form.
C14_Witness ==
    /\ variant = "remote"
    /\ createCalls # << >>
    /\ Len(questions) = MaxQuestions
    /\ createCalls[1].data = questions[MaxQuestions]
    /\ correct = {}

\* C15: in the remote variant a Save click on a form that passes validation
\* issues exactly one create request, for the domain selected at the click
\* and with the question the click appended to the store; nothing else issues
\* a create request, and a request that settles, resolved or rejected, is
\* gone and not issued again.
C15_OneRequestPerSave ==
    [][variant = "remote" =>
           LET accepted == /\ \E t \in 0 .. MaxClock : SaveQuestionRemote(t)
                           /\ RemoteVerdict = "ok"
           IN  /\ accepted =>
                      createCalls' =
                          Append(createCalls,
                                 [domain_id |-> ParseInt(selecteddomain),
                                  data |-> questions'[Len(questions')]])
               /\ Len(createCalls') > Len(createCalls) => accepted
               /\ \A k \in 1 .. MaxPending, resolved \in BOOLEAN :
                      AddQuestionSettles(k, resolved) =>
                          createCalls' = RemoveAt(createCalls, k)]_vars

\* The first accepted save of the remote variant has issued its request, for
\* the one domain the backend lists.
C15_Witness ==
    /\ variant = "remote"
    /\ Len(questions) = 1
    /\ Len(createCalls) = 1
    /\ createCalls[1].domain_id = ServerDomains[1].id
    /\ createCalls[1].data = questions[1]
    /\ selecteddomain = NumberToString(ServerDomains[1].id)

\* C19: the identifiers of the stored questions are pairwise distinct, also
\* when two saves read the same clock value.
C19_IdsDistinct ==
    \A i, j \in 1 .. Len(questions) :
        i # j => questions[i].id # questions[j].id

\* C20: a stored question is never edited in place: while the page is up, a
\* step leaves the store as it is, appends one question at its end, or, in
\* the dialog variants, removes the question at one index; every question
\* that stays keeps all its fields.
C20_StoredQuestionsImmutable ==
    [][(pc = "ready" /\ pc' = "ready") =>
           \/ questions' = questions
           \/ /\ Len(questions') = Len(questions) + 1
              /\ SubSeq(questions', 1, Len(questions)) = questions
           \/ /\ variant \in DialogVariants
              /\ Len(questions') = Len(questions) - 1
              /\ \E i \in 1 .. Len(questions) :
                     \A j \in 1 .. Len(questions') :
                         questions'[j] = questions[IF j < i THEN j ELSE j + 1]]_vars

\* The inline variant holds a stored question with two typed options while
\* the form, reset by the save, has since had its first option typed and a
\* correct option chosen.
C20_Witness ==
    /\ variant = "inline"
    /\ Len(questions) = 1
    /\ questions[1].options[2].text = TypedParagraph
    /\ options[1].text = TypedParagraph
    /\ options[2].text = EmptyString
    /\ correct # Null

\* The expression a formula marker carries, "" for a marker without one.
ExpressionOf(token) ==
    IF GetAttribute(token).null THEN EmptyString ELSE GetAttribute(token).value

\* C16: in the div of a viewer, every node that is no formula marker is as
\* the content gave it, every marker whose expression typesets shows the
\* KaTeX output of that expression, and every marker whose expression fails
\* to typeset shows an error placeholder that quotes the expression.
C16_FailingMarkerShowsQuotedError ==
    /\ Len(dom) = Len(content)
    /\ \A i \in 1 .. Len(content) :
           /\ dom[i].markup = content[i]
           /\ ~IsFormula(content[i]) => dom[i].inner = AsParsed
           /\ (IsFormula(content[i]) /\ ExpressionOf(content[i]) # EmptyString) =>
                  LET latex == ExpressionOf(content[i]) IN
                  IF KatexOutcome(latex) = "html"
                  THEN dom[i].inner = [kind |-> "katex", of |-> latex]
                  ELSE /\ dom[i].inner.kind \in { "katex-error", "error-text" }
                       /\ dom[i].inner.of = latex

\* C18: while the formula dialog is open, the settled preview of the
\* LatexEditor is the KaTeX output of the current input if the input
\* typesets, and the error message KaTeX gave for the current input if it
\* does not.
C18_PreviewReflectsInput ==
    showLatexDialog =>
        Preview = IF KatexOutcome(input) = "html"
                  THEN [kind |-> "katex", of |-> input]
                  ELSE [kind |-> "message", of |-> input]

\* The click on "Insert Formula" with an expression that is not blank.
ConfirmClick ==
    /\ pc = "ready"
    /\ showLatexDialog
    /\ ~TrimsToNothing(input)
    /\ \E index \in 0 .. MaxFormulas : InsertFormulaClick(index)

\* `after` is `before` with one more token, a formula marker that carries
\* `latex`.
OneMarkerMore(before, after, latex) ==
    /\ Len(after) = Len(before) + 1
    /\ \E k \in 1 .. Len(after) :
           /\ after[k] = FormulaSpan(latex)
           /\ GetAttribute(after[k]) = NotNull(latex)
           /\ SubSeq(after, 1, k - 1) \o SubSeq(after, k + 1, Len(after)) = before

\* C17: pressing the formula button of an editor opens the dialog and
\* records that editor; the record stays while the dialog stays open; and
\* confirming an expression that is not blank puts exactly one marker with
\* that expression into the recorded editor, leaves every other field as it
\* was, closes the dialog and clears the record.
C17_FormulaGoesToOpeningField ==
    [][/\ \A editor \in Editors :
              FormulaHandler(editor) =>
                  showLatexDialog' /\ activeEditor' = NotNull(editor)
       /\ (showLatexDialog /\ showLatexDialog') => activeEditor' = activeEditor
       /\ ConfirmClick =>
              /\ ~showLatexDialog'
              /\ activeEditor' = Null
              /\ \E target \in Editors :
                     /\ activeEditor = NotNull(target)
                     /\ Mounted(target)
                     /\ Len(options') = Len(options)
                     /\ OneMarkerMore(EditorContents(FieldText(target)),
                                      EditorContents(FieldText(target)'), input)
                     /\ \A other \in Editors \ { target } :
                            Mounted(other) => FieldText(other)' = FieldText(other)]_vars

\* C21: every question of type NAT in the store has min_value <= max_value.
C21_NatRangeOrdered ==
    \A i \in 1 .. Len(questions) :
        IsNat(questions[i]) => questions[i].min_value <= questions[i].max_value

\* The form holds the content of the stored question q, id and subject left
\* aside.
FormHolds(q) ==
    [RemoteData(0) EXCEPT !.id = q.id, !.subject_id = q.subject_id] = q

\* C22: in the remote variant, a Save click while a create call is awaited
\* and the form still holds the content of that call is accepted: it
\* appends a second question with the same content to the store and issues
\* a second create request, the first one still awaited.
C22_SecondSaveWhilePending ==
    [][(/\ variant = "remote"
        /\ createCalls # << >>
        /\ FormHolds(createCalls[Len(createCalls)].data)
        /\ SaveClick) =>
           /\ RemoteVerdict = "ok"
           /\ Len(questions') = Len(questions) + 1
           /\ SubSeq(questions', 1, Len(questions)) = questions
           /\ FormHolds(questions'[Len(questions')])
           /\ createCalls' =
                  Append(createCalls,
                         [domain_id |-> ParseInt(selecteddomain),
                          data |-> questions'[Len(questions')]])]_vars

\* Two create calls with the same content are awaited and both questions
\* are in the store.
C22_Witness ==
    /\ variant = "remote"
    /\ Len(createCalls) = 2
    /\ Len(questions) = 2
    /\ createCalls[1].data = questions[1]
    /\ createCalls[2].data = questions[2]
    /\ FormHolds(questions[1])
    /\ FormHolds(questions[2])

\* The number of the fields question text, options, correct selection and
\* explanation that a step changes.
FieldsChanged ==
    (IF questionText' # questionText THEN 1 ELSE 0)
        + (IF options' # options THEN 1 ELSE 0)
        + (IF correct' # correct THEN 1 ELSE 0)
        + (IF explanation' # explanation THEN 1 ELSE 0)

\* C23: in the remote variant, the step in which a create call settles,
\* resolved or rejected, sets question text, options, correct selection and
\* explanation to their initial values whatever they hold; an accepted save
\* leaves the four fields as they are; and while the page stays mounted no
\* other step changes more than one of them.
C23_FormResetWhenCallSettles ==
    [][variant = "remote" =>
           /\ \A k \in 1 .. MaxRacing, resolved \in BOOLEAN :
                  AddQuestionSettles(k, resolved) =>
                      /\ questionText' = EmptyString
                      /\ options' = BlankOptions
                      /\ correct' = {}
                      /\ explanation' = EmptyString
           /\ (SaveClick /\ RemoteVerdict = "ok") => FieldsChanged = 0
           /\ (pc = "ready" /\ pc' = "ready" /\ FieldsChanged > 1) =>
                  \E k \in 1 .. MaxRacing, resolved \in BOOLEAN :
                      AddQuestionSettles(k, resolved)]_vars

\* Two saves were accepted, one create call has settled and cleared the
\* form, the other is still awaited.
C23_Witness ==
    /\ variant = "remote"
    /\ Len(questions) = 2
    /\ Len(createCalls) = 1
    /\ createCalls[1].data = questions[2]
    /\ questionText = EmptyString
    /\ options = BlankOptions
    /\ correct = {}
    /\ explanation = EmptyString

\* The subject with this id, as a string, is one of the subjects of the
\* domain with this id.
BelongsTo(subject_id, domain_id) ==
    \E i \in 1 .. Len(ServerSubjects(NumberToString(domain_id))) :
        NumberToString(ServerSubjects(NumberToString(domain_id))[i].id) = subject_id

\* C24: in the remote variant, every create call submitted under a domain
\* carries a question whose subject_id is a subject of that domain.
C24_SubjectBelongsToDomain ==
    \A k \in 1 .. Len(createCalls) :
        BelongsTo(createCalls[k].data.subject_id, createCalls[k].domain_id)

\* C25: in the remote variant, once a domain is selected and no subject
\* fetch is awaited, the subject list of the page is the list of the
\* selected domain.
C25_SubjectsOfSelectedDomain ==
    (variant = "remote" /\ selecteddomain # EmptyString /\ subjectCalls = << >>) =>
        subjects = Defined(ServerSubjects(selecteddomain))

\* The slot holds the serialization of a sequence with at least one question.
HoldsQuestions(s) == s.kind = "json" /\ s.doc[1] = "arr" /\ s.doc[2] # << >>

\* C26: while a page that found a non-empty persisted sequence is being
\* initialized, no step writes a different value to the slot, and the step
\* that ends the initialization leaves the persisted sequence in the store
\* and in the slot.
C26_MountKeepsPersistedData ==
    [][/\ (pc = "mounting" /\ HoldsQuestions(slot)) => slot' = slot
       /\ (pc = "hydrating" /\ pc' = "ready") =>
              /\ questions' = preReload
              /\ slot' = JsonText(Stringify(preReload))]_vars

\* C27: in the dialog variants, removing an option keeps the correct mark on
\* the option the user selected: the options keep their order, so the mark
\* follows its option one position down when an option before it is
\* removed, stays when an option after it is removed, and is cleared when
\* the selected option itself is removed.
C27_CorrectMarkFollowsOption ==
    [][\A indexToRemove \in 0 .. MaxOptions - 1 :
           HandleRemoveOption(indexToRemove) =>
               IF correct = Null THEN correct' = Null
               ELSE LET selected == ParseInt(correct.value) IN
                    IF indexToRemove = selected THEN correct' = Null
                    ELSE correct' =
                             NotNull(NumberToString(IF indexToRemove < selected
                                                    THEN selected - 1
                                                    ELSE selected))]_vars

=============================================================================
